---------------------------- MODULE Spec2Model ----------------------------
(***************************************************************************)
(* Model of backend/api/utils.py: the duty-cycle simulation of             *)
(* calculate_schedule (add_event, get_position, drive_leg, the trip        *)
(* sequence and the summary) and the pure function                          *)
(* interpolate_along_route.                                                 *)
(*                                                                          *)
(* Numbers.  The code computes in floating-point hours and miles.  The     *)
(* model computes exactly, in fixed point: a time is a whole number of     *)
(* ticks (Hour ticks to the hour) and a distance a whole number of units   *)
(* (Mile units to the mile).  The scales are chosen so that every          *)
(* quantity the code derives from the inputs drawn here is a whole number: *)
(* 0.001 h is 11 ticks, 0.5 mile is 500 units, x miles at 55 mph take      *)
(* x * 11 / 55 ticks.  The duty-cycle simulation is modelled without       *)
(* floating-point rounding error; interpolate_along_route, whose result is *)
(* compared for equality, keeps its rounding (see below), and the          *)
(* simulation carries a position as the polyline and fraction it is        *)
(* interpolated from.                                                      *)
(***************************************************************************)
EXTENDS Integers, Sequences, FiniteSets, TLC

VARIABLES
    pc,                 \* position in calculate_schedule / drive_leg
    cycle_used_input,   \* request input (ticks)
    curr_coords, pick_coords, drop_coords,
    leg1, leg2,         \* route responses: <<>> (None) or <<[distance_miles, geometry]>>
    logs, stops,
    current_time, cycle_used, drive_clock, window_clock, since_break_clock,
    miles_since_fuel,
    leg_name, start_coords, total_miles, geometry, \* drive_leg parameters
    remaining, driven_on_leg, current_pos,          \* drive_leg locals
    result,             \* returned value: <<>> while running
    events,             \* history: the add_event calls made so far
    ipc, geometry_coords, fraction, pos \* interpolate_along_route on its own

tripVars == <<pc, cycle_used_input, curr_coords, pick_coords, drop_coords,
              leg1, leg2, logs, stops, current_time, cycle_used, drive_clock,
              window_clock, since_break_clock, miles_since_fuel, leg_name,
              start_coords, total_miles, geometry, remaining, driven_on_leg,
              current_pos, result, events>>
interpVars == <<ipc, geometry_coords, fraction, pos>>
vars == <<tripVars, interpVars>>

-----------------------------------------------------------------------------
(* Scales of the fixed-point representation *)
Hour == 11000
Mile == 1000
TicksPerUnit == Hour \div Mile

(* FMCSA constants, utils.py lines 6-16 *)
MAX_DRIVE_TIME == 11 * Hour
MAX_DUTY_WINDOW == 14 * Hour
BREAK_REQUIRED_AFTER == 8 * Hour
MIN_BREAK == Hour \div 2
SLEEPER_REST == 10 * Hour
FuelEvery500 == 500 * Mile          \* variant: a shorter fuel interval
FUEL_INTERVAL == 1000 * Mile
TwoHours == 2 * Hour                \* variant: a longer loading time
LOAD_UNLOAD_TIME == 1 * Hour
MAX_CYCLE_LIMIT == 70 * Hour
RESTART_34 == 34 * Hour
AVG_SPEED == 55

(* literals of calculate_schedule *)
START_TIME == 6 * Hour              \* current_time = 6.0
INSPECTION_TIME == Hour \div 4      \* 0.25
FUEL_STOP_TIME == Hour \div 2       \* 0.5
HundredthOfHour == Hour \div 100    \* variant: a threshold of 0.01
EPS == Hour \div 1000               \* 0.001
TOLERANCE == Mile \div 2            \* while remaining > 0.5
HALF_HOUR == Hour \div 2            \* duration >= 0.5
TEN_HOURS == 10 * Hour              \* duration >= 10.0
THIRTYFOUR_HOURS == 34 * Hour       \* duration >= 34.0
DAY == 24 * Hour                    \* current_time / 24

Some(x) == <<x>>

Max(a, b) == IF a >= b THEN a ELSE b
Min(a, b) == IF a <= b THEN a ELSE b

(* round(x, 3) on a time in ticks: the nearest multiple of 0.001 h.  A tick
   count is never halfway between two multiples of 11, so no tie arises. *)
Round3(t) == ((2 * t + EPS) \div (2 * EPS)) * EPS

(* variant of HoursFor: the hours at 60 mph *)
HoursAt60(m) == (m * TicksPerUnit) \div 60

(* remaining / AVG_SPEED (miles to hours) and limiting_time * AVG_SPEED *)
HoursFor(m) == (m * TicksPerUnit) \div AVG_SPEED
MilesFor(t) == (t * AVG_SPEED) \div TicksPerUnit


-----------------------------------------------------------------------------
(* interpolate_along_route, lines 50-97.                                   *)
(*                                                                          *)
(* Its result is compared for equality with input coordinates, so here the *)
(* rounding of the code's floating-point arithmetic is kept: a coordinate, *)
(* length or fraction is a binary floating-point number, every arithmetic  *)
(* operation rounds its exact result to the nearest one (ties to even), as *)
(* IEEE 754 does.  The numbers carry PREC significant bits where the       *)
(* code's doubles carry 53; exponents are unbounded.  A number is written  *)
(* <<n, d>>, the fraction n / d in lowest terms with d a power of two.     *)
PREC == 4

Pow2(k) == 2 ^ k

Abs(n) == IF n < 0 THEN -n ELSE n

Sign(n) == IF n < 0 THEN -1 ELSE 1

(* the largest k with 2^k dividing both n and the power of two d *)
CommonTwos(n, d) ==
    CHOOSE k \in 0..32 :
        /\ n % Pow2(k) = 0 /\ d % Pow2(k) = 0
        /\ (n % Pow2(k + 1) # 0 \/ d % Pow2(k + 1) # 0)

Canon(n, d) ==
    IF n = 0 THEN <<0, 1>>
    ELSE <<n \div Pow2(CommonTwos(n, d)), d \div Pow2(CommonTwos(n, d))>>

(* the least k with a * 2^k >= b, for a, b > 0 *)
ScaleUp(a, b) ==
    CHOOSE k \in 0..32 : a * Pow2(k) >= b /\ (k = 0 \/ a * Pow2(k - 1) < b)

(* the integer nearest to a / b, ties to the even one *)
NearestEven(a, b) ==
    IF 2 * (a % b) > b \/ (2 * (a % b) = b /\ (a \div b) % 2 = 1)
    THEN (a \div b) + 1
    ELSE a \div b

(* the floating-point number nearest to the rational n / d, d > 0 *)
Fl(n, d) ==
    IF n = 0 THEN <<0, 1>>
    ELSE LET a == Abs(n)
             up == ScaleUp(a, Pow2(PREC - 1) * d)       \* a / d too small
             down == ScaleUp(Pow2(PREC) * d, a + 1)     \* a / d too large
             m == NearestEven(a * Pow2(up), d * Pow2(down))
         IN  Canon(Sign(n) * m * Pow2(down), Pow2(up))

FAdd(x, y) == Fl(x[1] * y[2] + y[1] * x[2], x[2] * y[2])
FSub(x, y) == Fl(x[1] * y[2] - y[1] * x[2], x[2] * y[2])
FMul(x, y) == Fl(x[1] * y[1], x[2] * y[2])
FDiv(x, y) == Fl(Sign(y[1]) * x[1] * y[2], x[2] * Abs(y[1]))

FLeq(x, y) == x[1] * y[2] <= y[1] * x[2]
FLess(x, y) == x[1] * y[2] < y[1] * x[2]
FZero == <<0, 1>>
FOne == <<1, 1>>

(* x ** 0.5: the floating-point number nearest to the square root of
   x = n / d > 0.  The root is sought as m * 2^e with m of PREC bits: j is
   the power of four that brings x into [4^(PREC-1), 4^PREC), m the integer
   part of the root of the scaled number, rounded on the half. *)
FSqrtScaled(yn, yd, up, down) ==
    LET m == CHOOSE k \in Pow2(PREC - 1)..(Pow2(PREC) - 1) :
                 k * k * yd <= yn /\ yn < (k + 1) * (k + 1) * yd
        r == IF (2 * m + 1) * (2 * m + 1) * yd <= 4 * yn THEN m + 1 ELSE m
    IN  Canon(r * Pow2(down), Pow2(up))

FSqrt(x) ==
    IF x[1] = 0 THEN FZero
    ELSE LET lo == Pow2(2 * (PREC - 1)) * x[2]
             hi == Pow2(2 * PREC) * x[2]
             up == CHOOSE k \in 0..16 :
                      x[1] * Pow2(2 * k) >= lo
                      /\ (k = 0 \/ x[1] * Pow2(2 * (k - 1)) < lo)
             down == CHOOSE k \in 0..16 :
                      x[1] < hi * Pow2(2 * k)
                      /\ (k = 0 \/ x[1] >= hi * Pow2(2 * (k - 1)))
         IN  FSqrtScaled(x[1] * Pow2(2 * up), x[2] * Pow2(2 * down), up, down)

(* f"{lon},{lat}": the position handed around as a string in the code *)
Fmt(lon, lat) == <<lon, lat>>

None == <<>>

(* line 71 *)
SegLen(p1, p2) ==
    LET dx == FSub(p2[1], p1[1])
        dy == FSub(p2[2], p1[2])
    IN  FSqrt(FAdd(FMul(dx, dx), FMul(dy, dy)))

(* lines 67-73 *)
segment_lengths(coords) ==
    [i \in 1..(Len(coords) - 1) |-> SegLen(coords[i], coords[i + 1])]

(* the running sum of lines 73 and 93, after k segments *)
RECURSIVE Accumulated(_, _)
Accumulated(segs, k) ==
    IF k = 0 THEN FZero ELSE FAdd(Accumulated(segs, k - 1), segs[k])

(* line 58: fraction = max(0.0, min(1.0, fraction)) *)
Clamp(f) ==
    IF FLess(f, FZero) THEN FZero
    ELSE IF FLess(FOne, f) THEN FOne
    ELSE f

(* lines 90-91: p1 + (p2 - p1) * seg_fraction, one coordinate *)
Lerp(a, b, seg_fraction) == FAdd(a, FMul(FSub(b, a), seg_fraction))

(* line 83: the segments at which current_distance + seg_len reaches
   target_distance *)
HitSegments(segs, target_distance) ==
    {i \in 1..Len(segs) : FLeq(target_distance, Accumulated(segs, i))}

(* lines 84-92 *)
InterpolateIn(coords, segs, target_distance, i) ==
    LET current_distance == Accumulated(segs, i - 1)
        seg_len == segs[i]
        seg_fraction ==
            IF FLess(FZero, seg_len)
            THEN FDiv(FSub(target_distance, current_distance), seg_len)
            ELSE FZero
        p1 == coords[i]
        p2 == coords[i + 1]
    IN  Fmt(Lerp(p1[1], p2[1], seg_fraction), Lerp(p1[2], p2[2], seg_fraction))

interpolate_along_route(coords, frac) ==
    IF Len(coords) = 0 THEN None
    ELSE IF Len(coords) = 1 THEN Fmt(coords[1][1], coords[1][2])
    ELSE
      LET segs == segment_lengths(coords)
          total_length == Accumulated(segs, Len(segs))
          target_distance == FMul(Clamp(frac), total_length)
          hits == HitSegments(segs, target_distance)
      IN  IF total_length = FZero THEN Fmt(coords[1][1], coords[1][2])
          ELSE IF hits # {}
               THEN InterpolateIn(coords, segs, target_distance,
                                  CHOOSE i \in hits : \A j \in hits : i <= j)
          ELSE Fmt(coords[Len(coords)][1], coords[Len(coords)][2])

(* lines 193-196.  Inside the simulation a position is kept as the call
   that yields it, the polyline and the fraction along it, and not
   evaluated; the fallback is taken where interpolate_along_route returns
   None, that is on the empty polyline. *)
get_position(coords, frac, fallback_coords) ==
    IF Len(coords) = 0 THEN fallback_coords ELSE <<"along", coords, frac>>

-----------------------------------------------------------------------------
(* add_event, lines 141-190.  Returns the values of logs, stops and the
   clocks after the call, given the stop list st it appends to.  events is
   a history of the calls: status, clamped duration, stop type and the
   trackers as they were when the call was made. *)
NO_STOP == "None"

Before ==
    [current_time |-> current_time, cycle_used |-> cycle_used,
     drive_clock |-> drive_clock, window_clock |-> window_clock,
     since_break_clock |-> since_break_clock,
     miles_since_fuel |-> miles_since_fuel,
     remaining |-> remaining, leg_name |-> leg_name]

(* line 146: end = current_time + duration *)
EndTime(duration) == current_time + duration

(* variant of TimeAfter: line 169 left out, the time does not advance *)
TimeNotAdvanced(end) == current_time

(* line 169: current_time = end *)
TimeAfter(end) == end

(* lines 171-190, one clock at a time *)
DriveClockAfter(status, duration) ==
    IF status = "DRIVING" THEN drive_clock + duration
    ELSE IF status \in {"OFF_DUTY", "SLEEPER"} /\ duration >= TEN_HOURS THEN 0
    ELSE drive_clock

(* variant of SinceBreakAfter: any ON_DUTY event resets the break clock *)
BreakResetByAnyOnDuty(status, duration) ==
    IF status = "DRIVING" THEN since_break_clock + duration
    ELSE IF status = "ON_DUTY" THEN 0
    ELSE IF status \in {"OFF_DUTY", "SLEEPER"} /\ duration >= HALF_HOUR
         THEN 0
    ELSE since_break_clock

SinceBreakAfter(status, duration) ==
    IF status = "DRIVING" THEN since_break_clock + duration
    ELSE IF status \in {"ON_DUTY", "OFF_DUTY", "SLEEPER"}
            /\ duration >= HALF_HOUR
         THEN 0
    ELSE since_break_clock

(* variant of CycleUsedAfter: lines 189-190 left out, no rest resets the
   cycle *)
CycleNeverReset(status, duration) ==
    IF status \in {"DRIVING", "ON_DUTY"} THEN cycle_used + duration
    ELSE cycle_used

CycleUsedAfter(status, duration) ==
    IF status \in {"DRIVING", "ON_DUTY"} THEN cycle_used + duration
    ELSE IF status \in {"OFF_DUTY", "SLEEPER"} /\ duration >= THIRTYFOUR_HOURS
         THEN 0
    ELSE cycle_used

(* variant of WindowClockAfter: line 187 left out, a rest of 10 h adds to
   the duty window *)
WindowNeverReset(status, duration) ==
    IF status \in {"DRIVING", "ON_DUTY", "OFF_DUTY", "SLEEPER"}
    THEN window_clock + duration
    ELSE window_clock

WindowClockAfter(status, duration) ==
    IF status \in {"DRIVING", "ON_DUTY"} THEN window_clock + duration
    ELSE IF status \in {"OFF_DUTY", "SLEEPER"}
         THEN IF duration >= TEN_HOURS THEN 0 ELSE window_clock + duration
    ELSE window_clock

AddEventResult(st, status, duration, loc_coords, remark, stop_type) ==
    LET start == current_time
        end == EndTime(duration)
    IN  [logs |-> Append(logs, [status |-> status, start |-> Round3(start),
                                end |-> Round3(end), location |-> loc_coords,
                                remarks |-> remark]),
         stops |-> IF stop_type # NO_STOP
                   THEN Append(st, [coords |-> loc_coords, type |-> stop_type,
                                    remark |-> remark, time |-> Round3(start),
                                    duration |-> Round3(duration)])
                   ELSE st,
         current_time |-> TimeAfter(end),
         drive_clock |-> DriveClockAfter(status, duration),
         since_break_clock |-> SinceBreakAfter(status, duration),
         cycle_used |-> CycleUsedAfter(status, duration),
         window_clock |-> WindowClockAfter(status, duration),
         events |-> Append(events, [status |-> status, duration |-> duration,
                                    stop_type |-> stop_type,
                                    before |-> Before])]

(* line 144: duration = max(0, duration) *)
add_event(st, status, dur, loc_coords, remark, stop_type) ==
    AddEventResult(st, status, Max(0, dur), loc_coords, remark, stop_type)

Commit(r) ==
    /\ logs' = r.logs
    /\ stops' = r.stops
    /\ current_time' = r.current_time
    /\ drive_clock' = r.drive_clock
    /\ since_break_clock' = r.since_break_clock
    /\ cycle_used' = r.cycle_used
    /\ window_clock' = r.window_clock
    /\ events' = r.events

-----------------------------------------------------------------------------
(* Inputs.  Bounds of the model. *)
MaxLegBlocks == 2       \* leg distances up to MaxLegBlocks * 550 miles
MaxSeedBlocks == 2      \* seed cycle hours up to MaxSeedBlocks * 35 h
MaxPts == 3             \* points of a polyline, interpolate_along_route alone
MaxCoord == 1           \* its coordinates are 0..MaxCoord
MaxCalls == 2           \* add_event calls in a row, add_event alone
MaxDen == 4             \* its fractions are the floats nearest -1/MaxDen ..
                        \* (MaxDen + 1)/MaxDen

current_loc == "Chicago, IL"
pickup_loc == "Dallas, TX"
dropoff_loc == "Denver, CO"

(* what geocode answers for a place it resolves *)
Geocoded(place) ==
    IF place = current_loc THEN Fmt(<<0, 1>>, <<0, 1>>)
    ELSE IF place = pickup_loc THEN Fmt(<<3, 1>>, <<4, 1>>)
    ELSE Fmt(<<3, 1>>, <<0, 1>>)

(* seed cycle hours: 0, values around the exhaustion of the 70-hour cycle
   after the 0.25 h inspection, a value above the limit, and the seed with
   which the cycle and the fuel of a long leg 1 run out together: 70 h less
   the 0.25 + 8 + 3 + 395/55 h on duty when 1000 miles are reached *)
Seeds ==
    {k * 35 * Hour : k \in 0..MaxSeedBlocks}
        \cup {(699 * Hour) \div 10,                    \* 69.9
              MAX_CYCLE_LIMIT - INSPECTION_TIME - EPS + 1, \* headroom < 0.001
              MAX_CYCLE_LIMIT - INSPECTION_TIME - EPS - 1, \* headroom > 0.001
              62 * Hour,
              MAX_CYCLE_LIMIT - INSPECTION_TIME - 11 * Hour
                  - HoursFor(395 * Mile)}

(* leg distances: whole multiples of 0.005 mile *)
LegMiles ==
    {k * 550 * Mile : k \in 0..MaxLegBlocks}
        \cup {(2 * Mile) \div 5,         \* 0.4: within the tolerance
              TOLERANCE + 5,             \* just beyond the tolerance
              50 * Mile,
              (6055 * Mile) \div 10,    \* 605.5: 11 h and half a mile
              1000 * Mile}              \* the fuel interval

(* a coordinate pair with whole-number coordinates *)
Pt(x, y) == <<<<x, 1>>, <<y, 1>>>>

Geoms == {<<>>, <<Pt(0, 0), Pt(3, 4)>>}

(* the polylines and fractions interpolate_along_route is applied to on its
   own *)
Points == {Pt(x, y) : x \in 0..MaxCoord, y \in 0..MaxCoord}

Polylines == UNION {[1..n -> Points] : n \in 0..MaxPts}

Fractions == {Fl(n, MaxDen) : n \in (-1)..(MaxDen + 1)}

Routes == {[distance_miles |-> m, geometry |-> g] : m \in LegMiles, g \in Geoms}

-----------------------------------------------------------------------------
(* drive_leg, lines 199-305 *)
time_to_finish == HoursFor(remaining)
time_until_11hr == Max(0, MAX_DRIVE_TIME - drive_clock)
time_until_14hr == Max(0, MAX_DUTY_WINDOW - window_clock)
time_until_8hr == Max(0, BREAK_REQUIRED_AFTER - since_break_clock)
time_until_70hr == Max(0, MAX_CYCLE_LIMIT - cycle_used)
time_until_fuel == Max(0, HoursFor(FUEL_INTERVAL - miles_since_fuel))

(* variant of limiting_time: the 8-hour headroom left out *)
LimitWithoutBreak ==
    Min(time_to_finish,
        Min(time_until_11hr,
            Min(time_until_14hr, Min(time_until_70hr, time_until_fuel))))

(* variant of limiting_time: the 70-hour headroom left out *)
LimitWithoutCycle ==
    Min(time_to_finish,
        Min(time_until_11hr,
            Min(time_until_14hr, Min(time_until_8hr, time_until_fuel))))

limiting_time ==
    Min(time_to_finish,
        Min(time_until_11hr,
            Min(time_until_14hr,
                Min(time_until_8hr, Min(time_until_70hr, time_until_fuel)))))

(* lines 208 and 276: driven_on_leg / total_miles, kept as the quotient's
   two terms *)
Fraction(dflt) ==
    IF total_miles > 0 THEN <<driven_on_leg, total_miles>> ELSE <<dflt, 1>>

Position == get_position(geometry, Fraction(0), start_coords)

(* variant of ExhaustedChoice: the 70-hour case left out *)
ExhaustedWithoutRestart ==
    IF time_until_11hr <= EPS \/ time_until_14hr <= EPS THEN "sleep"
    ELSE IF time_until_8hr <= EPS THEN "break"
    ELSE IF time_until_fuel <= EPS THEN "fuel"
    ELSE NO_STOP

(* variant of ExhaustedChoice: the order of the check after driving *)
ExhaustedFuelFirst ==
    IF time_until_fuel <= EPS THEN "fuel"
    ELSE IF time_until_70hr <= EPS THEN "restart"
    ELSE IF time_until_11hr <= EPS \/ time_until_14hr <= EPS THEN "sleep"
    ELSE IF time_until_8hr <= EPS THEN "break"
    ELSE NO_STOP

(* lines 230-255: which rest the exhausted case takes *)
ExhaustedChoice ==
    IF time_until_70hr <= EPS THEN "restart"
    ELSE IF time_until_11hr <= EPS \/ time_until_14hr <= EPS THEN "sleep"
    ELSE IF time_until_8hr <= EPS THEN "break"
    ELSE IF time_until_fuel <= EPS THEN "fuel"
    ELSE NO_STOP

(* variant of NeedChoice: the order of the exhausted case *)
NeedCycleFirst ==
    IF MAX_CYCLE_LIMIT - cycle_used <= EPS THEN "restart"
    ELSE IF MAX_DRIVE_TIME - drive_clock <= EPS
            \/ MAX_DUTY_WINDOW - window_clock <= EPS THEN "sleep"
    ELSE IF BREAK_REQUIRED_AFTER - since_break_clock <= EPS THEN "break"
    ELSE IF HoursFor(FUEL_INTERVAL - miles_since_fuel) <= EPS THEN "fuel"
    ELSE NO_STOP

(* lines 280-305: which stop the check after a DRIVING event takes *)
NeedChoice ==
    IF HoursFor(FUEL_INTERVAL - miles_since_fuel) <= EPS THEN "fuel"
    ELSE IF MAX_CYCLE_LIMIT - cycle_used <= EPS THEN "restart"
    ELSE IF MAX_DRIVE_TIME - drive_clock <= EPS
            \/ MAX_DUTY_WINDOW - window_clock <= EPS THEN "sleep"
    ELSE IF BREAK_REQUIRED_AFTER - since_break_clock <= EPS THEN "break"
    ELSE NO_STOP

(* variant of RestEvent: the break is recorded without its stop type *)
RestEventBreakUnmarked(choice, where) ==
    CASE choice = "restart" ->
            add_event(stops, "OFF_DUTY", RESTART_34, where,
                      "34-hr Restart (Cycle Reset)", "restart")
      [] choice = "sleep" ->
            add_event(stops, "SLEEPER", SLEEPER_REST, where,
                      "10-hr Sleeper Berth", "sleep")
      [] choice = "break" ->
            add_event(stops, "OFF_DUTY", MIN_BREAK, where, "30-min Break",
                      NO_STOP)
      [] choice = "fuel" ->
            add_event(stops, "ON_DUTY", FUEL_STOP_TIME, where, "Fuel Stop",
                      "fuel")

RestEvent(choice, where) ==
    CASE choice = "restart" ->
            add_event(stops, "OFF_DUTY", RESTART_34, where,
                      "34-hr Restart (Cycle Reset)", "restart")
      [] choice = "sleep" ->
            add_event(stops, "SLEEPER", SLEEPER_REST, where,
                      "10-hr Sleeper Berth", "sleep")
      [] choice = "break" ->
            add_event(stops, "OFF_DUTY", MIN_BREAK, where, "30-min Break",
                      "break")
      [] choice = "fuel" ->
            add_event(stops, "ON_DUTY", FUEL_STOP_TIME, where, "Fuel Stop",
                      "fuel")

EventVarsUnchanged ==
    UNCHANGED <<logs, stops, current_time, drive_clock, since_break_clock,
                cycle_used, window_clock, events>>

RequestUnchanged ==
    UNCHANGED <<cycle_used_input, curr_coords, pick_coords, drop_coords,
                leg1, leg2>>

LegUnchanged == UNCHANGED <<leg_name, start_coords, total_miles, geometry>>

(* The actions of the loop name the values an iteration computes once
   (\E x \in {e}) as the code's local variables do. *)

(* one iteration of the loop in the exhausted case, lines 205-255 *)
Rest ==
    /\ pc = "loop"
    /\ remaining > TOLERANCE
    /\ \E lt \in {limiting_time}, where \in {Position},
          choice \in {ExhaustedChoice} :
        /\ lt <= EPS
        /\ current_pos' = where
        /\ IF choice = NO_STOP
           THEN EventVarsUnchanged /\ UNCHANGED miles_since_fuel
           ELSE /\ \E r \in {RestEvent(choice, where)} : Commit(r)
                /\ miles_since_fuel' =
                      IF choice = "fuel" THEN 0 ELSE miles_since_fuel
    /\ UNCHANGED <<pc, remaining, driven_on_leg, result>>
    /\ RequestUnchanged /\ LegUnchanged /\ UNCHANGED interpVars

(* lines 258-269: the DRIVING duration and the miles it covers *)
DriveTime(lt, ttf) == IF lt >= ttf THEN ttf ELSE lt

(* variant of MilesDriven: the last DRIVING event counts the whole leg *)
MilesOfWholeLeg(lt, ttf) == IF lt >= ttf THEN total_miles ELSE MilesFor(lt)

MilesDriven(lt, ttf) == IF lt >= ttf THEN remaining ELSE MilesFor(lt)

(* the DRIVING event of an iteration, lines 205-228 and 257-272 *)
Drive ==
    /\ pc = "loop"
    /\ remaining > TOLERANCE
    /\ \E lt \in {limiting_time}, ttf \in {time_to_finish},
          where \in {Position} :
        /\ lt > EPS
        /\ current_pos' = where
        /\ \E r \in {add_event(stops, "DRIVING", DriveTime(lt, ttf),
                               <<"En Route", leg_name>>, "Driving", NO_STOP)} :
              Commit(r)
        /\ \E miles_driven \in {MilesDriven(lt, ttf)} :
              /\ remaining' = remaining - miles_driven
              /\ driven_on_leg' = driven_on_leg + miles_driven
              /\ miles_since_fuel' = miles_since_fuel + miles_driven
    /\ pc' = "check"
    /\ UNCHANGED result
    /\ RequestUnchanged /\ LegUnchanged /\ UNCHANGED interpVars

(* the check after the DRIVING event, lines 274-305 *)
NeedCheck ==
    /\ pc = "check"
    /\ \E choice \in {NeedChoice} :
        IF remaining > TOLERANCE /\ choice # NO_STOP
        THEN /\ \E stop_pos \in {get_position(geometry, Fraction(1),
                                              current_pos)} :
                  \E r \in {RestEvent(choice, stop_pos)} : Commit(r)
             /\ miles_since_fuel' =
                   IF choice = "fuel" THEN 0 ELSE miles_since_fuel
        ELSE EventVarsUnchanged /\ UNCHANGED miles_since_fuel
    /\ pc' = "loop"
    /\ UNCHANGED <<remaining, driven_on_leg, current_pos, result>>
    /\ RequestUnchanged /\ LegUnchanged /\ UNCHANGED interpVars

-----------------------------------------------------------------------------
(* calculate_schedule *)

(* variant of ErrorOf: the pickup tested before the current location *)
ErrorPickupFirst(cc, pk, dr, l1, l2) ==
    IF pk = None THEN <<"Could not locate pickup location: ", pickup_loc>>
    ELSE IF cc = None
         THEN <<"Could not locate current location: ", current_loc>>
    ELSE IF dr = None
         THEN <<"Could not locate dropoff location: ", dropoff_loc>>
    ELSE IF l1 = None
         THEN <<"Could not calculate route from Current Location to Pickup.">>
    ELSE IF l2 = None
         THEN <<"Could not calculate route from Pickup to Dropoff.">>
    ELSE None

(* lines 110-124: the first failed lookup, in the order the code tests them *)
ErrorOf(cc, pk, dr, l1, l2) ==
    IF cc = None THEN <<"Could not locate current location: ", current_loc>>
    ELSE IF pk = None
         THEN <<"Could not locate pickup location: ", pickup_loc>>
    ELSE IF dr = None
         THEN <<"Could not locate dropoff location: ", dropoff_loc>>
    ELSE IF l1 = None
         THEN <<"Could not calculate route from Current Location to Pickup.">>
    ELSE IF l2 = None
         THEN <<"Could not calculate route from Pickup to Dropoff.">>
    ELSE None

(* entering drive_leg, lines 199-203 *)
EnterLeg(sc, route, name) ==
    /\ start_coords' = sc
    /\ total_miles' = route.distance_miles
    /\ geometry' = route.geometry
    /\ leg_name' = name
    /\ remaining' = route.distance_miles
    /\ driven_on_leg' = 0

(* lines 105-138: geocode the three places, fetch the two routes, return the
   error of the first failure or initialise the trackers.  A route is
   fetched only when everything before it succeeded. *)
ResolveAndFetch ==
    /\ pc = "start"
    /\ \E okc \in BOOLEAN, okp \in BOOLEAN, okd \in BOOLEAN,
          r1 \in {None} \cup {Some(r) : r \in Routes},
          r2 \in {None} \cup {Some(r) : r \in Routes} :
        LET cc == IF okc THEN Geocoded(current_loc) ELSE None
            pk == IF okp THEN Geocoded(pickup_loc) ELSE None
            dr == IF okd THEN Geocoded(dropoff_loc) ELSE None
            geo_ok == cc # None /\ pk # None /\ dr # None
            l1 == IF geo_ok THEN r1 ELSE None
            l2 == IF geo_ok /\ l1 # None THEN r2 ELSE None
            err == ErrorOf(cc, pk, dr, l1, l2)
        IN  /\ ~geo_ok => (r1 = None /\ r2 = None)
            /\ (geo_ok /\ r1 = None) => r2 = None
            /\ curr_coords' = cc
            /\ pick_coords' = pk
            /\ drop_coords' = dr
            /\ leg1' = l1
            /\ leg2' = l2
            /\ IF err # None
               THEN /\ result' = [error |-> err]
                    /\ pc' = "done"
                    /\ UNCHANGED <<cycle_used>>
               ELSE /\ result' = None
                    /\ pc' = "trip"
                    /\ cycle_used' = cycle_used_input
    /\ UNCHANGED <<cycle_used_input, logs, stops, current_time, drive_clock,
                   window_clock, since_break_clock, miles_since_fuel, events,
                   leg_name, start_coords, total_miles, geometry, remaining,
                   driven_on_leg, current_pos>>
    /\ UNCHANGED interpVars

(* lines 311-326: the start stop, the pre-trip inspection, entry to leg 1 *)
StartTrip ==
    /\ pc = "trip"
    /\ Commit(add_event(
          Append(stops, [coords |-> curr_coords, type |-> "start",
                         remark |-> "Trip Start", time |-> current_time,
                         duration |-> 0]),
          "ON_DUTY", INSPECTION_TIME, curr_coords, "Pre-trip Inspection",
          "inspection"))
    /\ EnterLeg(curr_coords, leg1[1], "to Pickup")
    /\ pc' = "loop"
    /\ UNCHANGED <<miles_since_fuel, current_pos, result>>
    /\ RequestUnchanged /\ UNCHANGED interpVars

(* variant of Pickup: line 329 left out, leg 2 follows leg 1 directly *)
PickupWithoutLoading ==
    /\ pc = "loop"
    /\ remaining <= TOLERANCE
    /\ leg_name = "to Pickup"
    /\ EventVarsUnchanged
    /\ EnterLeg(pick_coords, leg2[1], "to Dropoff")
    /\ UNCHANGED <<pc, miles_since_fuel, current_pos, result>>
    /\ RequestUnchanged /\ UNCHANGED interpVars

(* lines 205 and 328-332: leg 1 is over; loading, entry to leg 2 *)
Pickup ==
    /\ pc = "loop"
    /\ remaining <= TOLERANCE
    /\ leg_name = "to Pickup"
    /\ Commit(add_event(stops, "ON_DUTY", LOAD_UNLOAD_TIME, pick_coords,
                        "Loading at Pickup", "pickup"))
    /\ EnterLeg(pick_coords, leg2[1], "to Dropoff")
    /\ UNCHANGED <<pc, miles_since_fuel, current_pos, result>>
    /\ RequestUnchanged /\ UNCHANGED interpVars

(* sum(l["end"] - l["start"] for l in logs if l["status"] in statuses) *)
RECURSIVE SumLogs(_, _, _)
SumLogs(ls, statuses, k) ==
    IF k = 0 THEN 0
    ELSE SumLogs(ls, statuses, k - 1)
         + (IF ls[k].status \in statuses THEN ls[k].end - ls[k].start ELSE 0)

(* variant of NumDays: the days of the hours elapsed since the start *)
NumDaysOfElapsed(now) == Max(1, ((now - START_TIME) \div DAY) + 1)

(* line 378: max(1, int(current_time / 24) + 1) *)
NumDays(now) == Max(1, (now \div DAY) + 1)

(* variant of Summary: the rest total leaves the SLEEPER entries out *)
SummaryRestOffDutyOnly(ls, st, now) ==
    [total_drive |-> SumLogs(ls, {"DRIVING"}, Len(ls)),
     total_rest |-> SumLogs(ls, {"OFF_DUTY"}, Len(ls)),
     total_on_duty |-> SumLogs(ls, {"ON_DUTY"}, Len(ls)),
     trip_duration |-> now - START_TIME,
     num_stops |-> Len(st),
     num_days |-> NumDays(now)]

(* lines 354-380, without the fields rounded to one decimal *)
Summary(ls, st, now) ==
    [total_drive |-> SumLogs(ls, {"DRIVING"}, Len(ls)),
     total_rest |-> SumLogs(ls, {"OFF_DUTY", "SLEEPER"}, Len(ls)),
     total_on_duty |-> SumLogs(ls, {"ON_DUTY"}, Len(ls)),
     trip_duration |-> now - START_TIME,
     num_stops |-> Len(st),
     num_days |-> NumDays(now)]

(* lines 205 and 334-380: leg 2 is over; unloading, the end stop, the result *)
Finish ==
    /\ pc = "loop"
    /\ remaining <= TOLERANCE
    /\ leg_name = "to Dropoff"
    /\ LET r == add_event(stops, "ON_DUTY", LOAD_UNLOAD_TIME, drop_coords,
                          "Unloading at Dropoff", "dropoff")
           all == Append(r.stops,
                         [coords |-> drop_coords, type |-> "end",
                          remark |-> "Trip Complete",
                          time |-> r.current_time, duration |-> 0])
       IN  /\ Commit([r EXCEPT !.stops = all])
           /\ result' = [logs |-> r.logs, stops |-> all,
                         route_geometry |->
                            [leg1 |-> leg1[1].geometry,
                             leg2 |-> leg2[1].geometry],
                         summary |-> Summary(r.logs, all, r.current_time)]
    /\ pc' = "done"
    /\ UNCHANGED <<miles_since_fuel, remaining, driven_on_leg, current_pos>>
    /\ RequestUnchanged /\ LegUnchanged /\ UNCHANGED interpVars

-----------------------------------------------------------------------------
TripInit ==
    /\ pc = "start"
    /\ curr_coords = None /\ pick_coords = None /\ drop_coords = None
    /\ leg1 = None /\ leg2 = None
    /\ logs = <<>> /\ stops = <<>>
    /\ current_time = START_TIME
    /\ cycle_used = 0
    /\ drive_clock = 0 /\ window_clock = 0 /\ since_break_clock = 0
    /\ miles_since_fuel = 0
    /\ leg_name = "" /\ start_coords = None /\ total_miles = 0
    /\ geometry = <<>> /\ remaining = 0 /\ driven_on_leg = 0
    /\ current_pos = None
    /\ result = None
    /\ events = <<>>

Init ==
    /\ TripInit
    /\ cycle_used_input \in Seeds
    /\ ipc = "idle"
    /\ geometry_coords = <<>> /\ fraction = FZero /\ pos = None

Next ==
    \/ ResolveAndFetch
    \/ StartTrip
    \/ Rest
    \/ Drive
    \/ NeedCheck
    \/ Pickup
    \/ Finish

Spec == Init /\ [][Next]_vars

(* drive_leg is sequential code: an iteration of its loop that can run
   does run. *)
FairSpec == Spec /\ WF_vars(Rest) /\ WF_vars(Drive) /\ WF_vars(NeedCheck)

-----------------------------------------------------------------------------
(* interpolate_along_route applied on its own to a drawn polyline and
   fraction *)
InterpInit ==
    /\ TripInit
    /\ cycle_used_input = 0
    /\ ipc = "call"
    /\ geometry_coords \in Polylines
    /\ fraction \in Fractions
    /\ pos = None

Interpolate ==
    /\ ipc = "call"
    /\ pos' = interpolate_along_route(geometry_coords, fraction)
    /\ ipc' = "ret"
    /\ UNCHANGED <<geometry_coords, fraction>>
    /\ UNCHANGED tripVars

InterpNext == Interpolate

InterpSpec == InterpInit /\ [][InterpNext]_vars

-----------------------------------------------------------------------------
(* add_event applied on its own: up to MaxCalls calls in a row, of any
   status and of durations on both sides of each threshold of lines
   171-190 (and a negative one, which line 144 clamps), from the trackers
   as lines 131-138 set them with a seed in cycle_used and some miles since
   the last fuel stop. *)
Statuses == {"DRIVING", "ON_DUTY", "OFF_DUTY", "SLEEPER"}

Durations ==
    {-Hour, Hour \div 4, HALF_HOUR - 1, HALF_HOUR, TEN_HOURS - 1, TEN_HOURS,
     THIRTYFOUR_HOURS - 1, THIRTYFOUR_HOURS}

AddInit ==
    /\ pc = "add"
    /\ cycle_used_input \in {0, 62 * Hour}
    /\ cycle_used = cycle_used_input
    /\ miles_since_fuel \in {0, 500 * Mile}
    /\ curr_coords = None /\ pick_coords = None /\ drop_coords = None
    /\ leg1 = None /\ leg2 = None
    /\ logs = <<>> /\ stops = <<>>
    /\ current_time = START_TIME
    /\ drive_clock = 0 /\ window_clock = 0 /\ since_break_clock = 0
    /\ leg_name = "" /\ start_coords = None /\ total_miles = 0
    /\ geometry = <<>> /\ remaining = 0 /\ driven_on_leg = 0
    /\ current_pos = None
    /\ result = None
    /\ events = <<>>
    /\ ipc = "idle"
    /\ geometry_coords = <<>> /\ fraction = FZero /\ pos = None

CallAddEvent ==
    /\ pc = "add"
    /\ Len(events) < MaxCalls
    /\ \E status \in Statuses, duration \in Durations :
          Commit(add_event(stops, status, duration, None, "Event", NO_STOP))
    /\ UNCHANGED <<pc, miles_since_fuel, remaining, driven_on_leg,
                   current_pos, result>>
    /\ RequestUnchanged /\ LegUnchanged /\ UNCHANGED interpVars

AddNext == CallAddEvent

AddEventSpec == AddInit /\ [][AddNext]_vars

-----------------------------------------------------------------------------
(* Reading the history *)
EventIdx == 1..Len(events)

TripEvents == {"inspection", "pickup", "dropoff"}

(* the add_event calls drive_leg made for the leg called name *)
LegEvents(name) ==
    {i \in EventIdx : /\ events[i].before.leg_name = name
                      /\ events[i].stop_type \notin TripEvents}

LegDriving(name) == {i \in LegEvents(name) : events[i].status = "DRIVING"}

RECURSIVE SumDurations(_)
SumDurations(S) ==
    IF S = {} THEN 0
    ELSE LET i == CHOOSE j \in S : TRUE
         IN  events[i].duration + SumDurations(S \ {i})

(* drive_leg has returned for the current leg *)
LegReturned == pc \in {"loop", "done"} /\ leg_name # "" /\ remaining <= TOLERANCE

Succeeded == pc = "done" /\ "logs" \in DOMAIN result

Failed == pc = "done" /\ "error" \in DOMAIN result

-----------------------------------------------------------------------------
(* C1: at the instant any DRIVING event begins (the trackers as add_event
   finds them), drive_clock <= 11 h, window_clock <= 14 h,
   since_break_clock <= 8 h, cycle_used <= 70 h and miles_since_fuel is at
   most 1000 miles plus the 0.5-mile tolerance. *)
C1_DrivingStartsWithinLimits ==
    \A i \in EventIdx :
        events[i].status = "DRIVING" =>
            /\ events[i].before.drive_clock <= MAX_DRIVE_TIME
            /\ events[i].before.window_clock <= MAX_DUTY_WINDOW
            /\ events[i].before.since_break_clock <= BREAK_REQUIRED_AFTER
            /\ events[i].before.cycle_used <= MAX_CYCLE_LIMIT
            /\ events[i].before.miles_since_fuel <= FUEL_INTERVAL + TOLERANCE

(* a DRIVING event that began with the cycle almost used up, in a trip that
   also began one after a fuel stop *)
C1_Witness ==
    /\ \E i \in EventIdx :
          /\ events[i].status = "DRIVING"
          /\ events[i].before.cycle_used > MAX_CYCLE_LIMIT - EPS - 2
    /\ \E i \in EventIdx :
          /\ events[i].status = "DRIVING"
          /\ i > 1 /\ events[i - 1].stop_type = "fuel"

(* C2: the log is ordered by start, its first entry starts at 6.0, each
   entry ends where the next one starts and no entry ends before it
   starts. *)
C2_LogContiguous ==
    /\ Len(logs) > 0 => logs[1].start = START_TIME
    /\ \A i \in 1..Len(logs) : logs[i].start <= logs[i].end
    /\ \A i \in 1..(Len(logs) - 1) :
          /\ logs[i].end = logs[i + 1].start
          /\ logs[i].start <= logs[i + 1].start

(* a log whose times are not whole thousandths of an hour before rounding *)
C2_Witness ==
    /\ Len(logs) >= 6
    /\ current_time # Round3(current_time)
    /\ \E i \in 1..Len(logs) : logs[i].status = "SLEEPER"

(* C3: drive_leg terminates: from every state of the loop with more than
   0.5 mile remaining, a state with at most 0.5 mile remaining is reached. *)
C3_LegTerminates ==
    (pc \in {"loop", "check"} /\ remaining > TOLERANCE)
        ~> (remaining <= TOLERANCE)

(* leg 2 is over after drive_leg took a restart, a sleeper rest, a break and
   a fuel stop for it *)
C3_Witness ==
    /\ LegReturned /\ leg_name = "to Dropoff"
    /\ \A t \in {"restart", "sleep", "break", "fuel"} :
          \E i \in LegEvents("to Dropoff") : events[i].stop_type = t

(* C4: when drive_leg returns, the leg's DRIVING durations times 55 mph sum
   to the distance driven, which is at most the leg's distance and at most
   0.5 mile short of it; a leg of at most 0.5 mile has no DRIVING entry. *)
C4_LegDistance ==
    LegReturned =>
        /\ SumDurations(LegDriving(leg_name)) * AVG_SPEED
              = driven_on_leg * TicksPerUnit
        /\ 0 <= total_miles - driven_on_leg
        /\ total_miles - driven_on_leg <= TOLERANCE
        /\ total_miles <= TOLERANCE => LegDriving(leg_name) = {}

(* a leg left exactly 0.5 mile short after several DRIVING entries *)
C4_Witness ==
    /\ LegReturned
    /\ total_miles - driven_on_leg = TOLERANCE
    /\ Cardinality(LegDriving(leg_name)) >= 2

(* C5: when a location cannot be resolved or a route cannot be fetched, the
   result is only the error of the first failure, in the order current,
   pickup, dropoff, leg 1, leg 2, and no log entry or stop was recorded. *)
C5_ErrorReplacesResult ==
    (pc # "start" /\ (curr_coords = None \/ pick_coords = None
                      \/ drop_coords = None \/ leg1 = None \/ leg2 = None))
    =>  /\ pc = "done"
        /\ DOMAIN result = {"error"}
        /\ logs = <<>> /\ stops = <<>> /\ events = <<>>
        /\ curr_coords = None =>
              result.error = <<"Could not locate current location: ",
                               current_loc>>
        /\ (curr_coords # None /\ pick_coords = None) =>
              result.error = <<"Could not locate pickup location: ",
                               pickup_loc>>
        /\ (curr_coords # None /\ pick_coords # None /\ drop_coords = None) =>
              result.error = <<"Could not locate dropoff location: ",
                               dropoff_loc>>
        /\ (curr_coords # None /\ pick_coords # None /\ drop_coords # None
            /\ leg1 = None) =>
              result.error =
                <<"Could not calculate route from Current Location to Pickup.">>
        /\ (curr_coords # None /\ pick_coords # None /\ drop_coords # None
            /\ leg1 # None) =>
              result.error =
                <<"Could not calculate route from Pickup to Dropoff.">>

(* the pickup and the dropoff both fail to resolve: the pickup is named *)
C5_Witness ==
    /\ Failed
    /\ curr_coords # None /\ pick_coords = None /\ drop_coords = None
    /\ result.error[1] = "Could not locate pickup location: "

(* the seed leaves the cycle exhausted once the inspection is added *)
SeedExhausted ==
    MAX_CYCLE_LIMIT - (cycle_used_input + (Hour \div 4)) <= Hour \div 1000

(* C6: when the seed leaves the 70-hour cycle exhausted after the 0.25 h
   inspection and leg 1 is longer than 0.5 mile, the second log entry is a
   34-hour OFF_DUTY restart, no DRIVING entry precedes it and cycle_used is
   0 right after it. *)
C6_ExhaustedCycleRestartsFirst ==
    (Len(events) >= 2 /\ SeedExhausted
     /\ leg1[1].distance_miles > Mile \div 2)
    =>  /\ events[1].status # "DRIVING"
        /\ events[2].status = "OFF_DUTY"
        /\ events[2].stop_type = "restart"
        /\ events[2].duration = 34 * Hour
        /\ logs[2].status = "OFF_DUTY"
        /\ logs[2].end - logs[2].start = 34 * Hour
        /\ Len(events) = 2 => cycle_used = 0

(* the state right after the restart of a trip seeded with 69.9 hours *)
C6_Witness ==
    /\ Len(events) = 2
    /\ cycle_used_input = (699 * Hour) \div 10
    /\ events[2].stop_type = "restart"
    /\ cycle_used = 0

FuelStops(name) ==
    {i \in LegEvents(name) : events[i].stop_type = "fuel"}

Leg1Returned ==
    \/ leg_name = "to Dropoff"
    \/ leg_name = "to Pickup" /\ LegReturned

(* C7: on a leg 1 of 1100 miles drive_leg records exactly one fuel event;
   it is ON_DUTY and 0.5 h long, and miles_since_fuel is 0 right after
   it. *)
C7_OneFuelStopOn1100 ==
    (leg1 # None /\ leg1[1].distance_miles = 1100 * Mile)
    =>  /\ Cardinality(FuelStops("to Pickup")) <= 1
        /\ Leg1Returned => Cardinality(FuelStops("to Pickup")) = 1
        /\ \A i \in FuelStops("to Pickup") :
              /\ events[i].status = "ON_DUTY"
              /\ events[i].duration = Hour \div 2
              /\ events[i].before.miles_since_fuel > 0
        /\ (Len(events) > 0 /\ Len(events) \in FuelStops("to Pickup")) =>
              miles_since_fuel = 0

(* the state right after the fuel stop of an 1100-mile leg 1 *)
C7_Witness ==
    /\ leg1 # None /\ leg1[1].distance_miles = 1100 * Mile
    /\ Len(events) > 0 /\ Len(events) \in FuelStops("to Pickup")
    /\ cycle_used_input > 0

(* the trackers as the current leg found them on entry: those of its first
   event, or the present ones when it has recorded none *)
FirstOf(S) == CHOOSE i \in S : \A j \in S : i <= j

EntryState ==
    IF LegEvents(leg_name) = {} THEN Before
    ELSE events[FirstOf(LegEvents(leg_name))].before

(* total_miles / 55 exceeds none of the five headrooms found on entry *)
FitsOnEntry ==
    LET b == EntryState
        t == total_miles * TicksPerUnit
    IN  /\ t <= AVG_SPEED * Max(0, 11 * Hour - b.drive_clock)
        /\ t <= AVG_SPEED * Max(0, 14 * Hour - b.window_clock)
        /\ t <= AVG_SPEED * Max(0, 8 * Hour - b.since_break_clock)
        /\ t <= AVG_SPEED * Max(0, 70 * Hour - b.cycle_used)
        /\ total_miles <= Max(0, 1000 * Mile - b.miles_since_fuel)

(* the leg recorded one event: a DRIVING entry of total_miles / 55 hours *)
OneDrivingEntry ==
    /\ Cardinality(LegEvents(leg_name)) = 1
    /\ \A i \in LegEvents(leg_name) :
          /\ events[i].status = "DRIVING"
          /\ events[i].stop_type = NO_STOP
          /\ events[i].duration * AVG_SPEED = total_miles * TicksPerUnit

(* C8 as stated: a leg that fits its headrooms on entry records exactly one
   DRIVING entry of total_miles / 55 hours and nothing else. *)
C8_Original == (LegReturned /\ FitsOnEntry) => OneDrivingEntry

(* C8 amended: a leg of more than 0.5 mile that fits its headrooms on
   entry records exactly one DRIVING entry of total_miles / 55 hours and no
   rest, break, restart or fuel event; a leg of at most 0.5 mile records no
   event at all.  A 50-mile leg 1 with cycle_used = 0 gives one DRIVING
   entry of 50/55 h followed directly by the 1 h ON_DUTY pickup. *)
C8_FittingLegIsOneDrive ==
    /\ (LegReturned /\ FitsOnEntry) =>
          IF total_miles > Mile \div 2 THEN OneDrivingEntry
          ELSE LegEvents(leg_name) = {}
    /\ (Len(events) >= 3 /\ cycle_used_input = 0
        /\ leg1[1].distance_miles = 50 * Mile) =>
          /\ events[2].status = "DRIVING"
          /\ events[2].duration * 11 = 10 * Hour       \* 50/55 h
          /\ logs[2].end - logs[2].start = (909 * Hour) \div 1000
          /\ events[3].status = "ON_DUTY"
          /\ events[3].stop_type = "pickup"
          /\ events[3].duration = Hour

(* leg 2, entered with used clocks, fits and is driven in one entry *)
C8_Witness ==
    /\ LegReturned /\ FitsOnEntry /\ leg_name = "to Dropoff"
    /\ total_miles > Mile \div 2
    /\ EntryState.drive_clock > 0
    /\ OneDrivingEntry

WithStop(t) == {i \in EventIdx : events[i].stop_type = t}

(* C9: a successful trip records a start stop at 6.0, the 0.25 h ON_DUTY
   inspection as first log entry, the events of leg 1, one 1 h ON_DUTY
   pickup, the events of leg 2, one 1 h ON_DUTY dropoff as last log entry,
   and an end stop, the last stop, timed at the final current_time. *)
C9_TripOrder ==
    Succeeded =>
        /\ stops[1].type = "start" /\ stops[1].time = 6 * Hour
        /\ WithStop("inspection") = {1}
        /\ logs[1].status = "ON_DUTY"
        /\ logs[1].remarks = "Pre-trip Inspection"
        /\ events[1].duration = Hour \div 4
        /\ Cardinality(WithStop("pickup")) = 1
        /\ \A k \in WithStop("pickup") :
              /\ events[k].status = "ON_DUTY" /\ events[k].duration = Hour
              /\ logs[k].remarks = "Loading at Pickup"
              /\ \A i \in LegEvents("to Pickup") : 1 < i /\ i < k
              /\ \A i \in LegEvents("to Dropoff") : k < i /\ i < Len(events)
              /\ \A i \in 1..Len(logs) :
                    logs[i].status = "DRIVING" =>
                        IF i < k
                        THEN logs[i].location = <<"En Route", "to Pickup">>
                        ELSE logs[i].location = <<"En Route", "to Dropoff">>
        /\ WithStop("dropoff") = {Len(events)}
        /\ Len(logs) = Len(events)
        /\ logs[Len(logs)].status = "ON_DUTY"
        /\ logs[Len(logs)].remarks = "Unloading at Dropoff"
        /\ events[Len(events)].duration = Hour
        /\ stops[Len(stops)].type = "end"
        /\ stops[Len(stops)].time = current_time
        /\ \A i \in 1..(Len(stops) - 1) : stops[i].type # "end"
        /\ \A i \in 2..Len(stops) : stops[i].type # "start"
        /\ result.logs = logs /\ result.stops = stops

(* a finished trip whose two legs both drove and rested *)
C9_Witness ==
    /\ Succeeded
    /\ \E i \in LegEvents("to Pickup") : events[i].status = "SLEEPER"
    /\ \E i \in LegEvents("to Dropoff") : events[i].stop_type = "fuel"
    /\ LegDriving("to Pickup") # {} /\ LegDriving("to Dropoff") # {}

-----------------------------------------------------------------------------
FirstPoint == Fmt(geometry_coords[1][1], geometry_coords[1][2])

LastPoint ==
    Fmt(geometry_coords[Len(geometry_coords)][1],
        geometry_coords[Len(geometry_coords)][2])

AllSamePoint == \A i \in 1..Len(geometry_coords) :
                    geometry_coords[i] = geometry_coords[1]

(* C10: interpolate_along_route returns the first point for fraction 0.0
   and the last point for fraction 1.0 on a polyline of two or more points,
   the single point of a one-point polyline at any fraction, the first
   point when the total length is zero, and None for an empty polyline. *)
C10_Endpoints ==
    ipc = "ret" =>
        /\ Len(geometry_coords) = 0 => pos = None
        /\ Len(geometry_coords) = 1 => pos = FirstPoint
        /\ (Len(geometry_coords) >= 2 /\ AllSamePoint) => pos = FirstPoint
        /\ (Len(geometry_coords) >= 2 /\ fraction = FZero) => pos = FirstPoint
        /\ (Len(geometry_coords) >= 2 /\ fraction = FOne) => pos = LastPoint

(* interpolate_along_route returned for fraction 1.0 on a polyline of three
   points, not all the same, at a point other than the last one *)
C10_Witness ==
    /\ ipc = "ret" /\ fraction = FOne
    /\ Len(geometry_coords) = 3 /\ ~AllSamePoint
    /\ pos # None /\ pos # LastPoint

(* C10 without the last point at fraction 1.0: with the rounding kept,
   interpolate_along_route returns None exactly for an empty polyline, the
   single point of a one-point polyline, the first point when the total
   length is zero, and the first point for every fraction <= 0.0. *)
C10_OtherCases ==
    ipc = "ret" =>
        /\ Len(geometry_coords) = 0 <=> pos = None
        /\ Len(geometry_coords) = 1 => pos = FirstPoint
        /\ (Len(geometry_coords) >= 2 /\ AllSamePoint) => pos = FirstPoint
        /\ (Len(geometry_coords) >= 2 /\ FLeq(fraction, FZero)) =>
              pos = FirstPoint

-----------------------------------------------------------------------------
(* The limits as the claims state them, on a record b of trackers: the
   headroom is at most 0.001 h. *)
CycleOut(b) == 70 * Hour - b.cycle_used <= Hour \div 1000

DriveOrWindowOut(b) ==
    \/ 11 * Hour - b.drive_clock <= Hour \div 1000
    \/ 14 * Hour - b.window_clock <= Hour \div 1000

BreakOut(b) == 8 * Hour - b.since_break_clock <= Hour \div 1000

(* (1000 - miles_since_fuel) / 55 <= 0.001 *)
FuelOut(b) == (1000 * Mile - b.miles_since_fuel) * 1000 <= 55 * Mile

(* remaining / 55 <= 0.001 *)
FinishOut(b) == b.remaining * 1000 <= 55 * Mile

(* an iteration of the loop begins in the exhausted case *)
InExhaustedCase ==
    /\ pc = "loop" /\ remaining > Mile \div 2
    /\ \/ FinishOut(Before) \/ CycleOut(Before) \/ DriveOrWindowOut(Before)
       \/ BreakOut(Before) \/ FuelOut(Before)

(* event e is the rest of the given kind *)
IsRestart(e) ==
    e.status = "OFF_DUTY" /\ e.stop_type = "restart" /\ e.duration = 34 * Hour

IsSleeper(e) ==
    e.status = "SLEEPER" /\ e.stop_type = "sleep" /\ e.duration = 10 * Hour

IsBreak(e) ==
    e.status = "OFF_DUTY" /\ e.stop_type = "break" /\ e.duration = Hour \div 2

IsFuel(e) ==
    e.status = "ON_DUTY" /\ e.stop_type = "fuel" /\ e.duration = Hour \div 2

(* C11: in the exhausted case of drive_leg exactly one rest/fuel event is
   recorded, never zero: the 34 h OFF_DUTY restart when the cycle is
   exhausted, else the 10 h SLEEPER when the drive limit or duty window is,
   else the 0.5 h OFF_DUTY break when the break requirement is, else the
   0.5 h ON_DUTY fuel stop; the iteration leaves remaining and driven_on_leg
   unchanged, and miles_since_fuel unchanged unless it took the fuel stop. *)
C11_ExhaustedCasePriority ==
    /\ [](InExhaustedCase =>
            (CycleOut(Before) \/ DriveOrWindowOut(Before)
             \/ BreakOut(Before) \/ FuelOut(Before)))
    /\ [][InExhaustedCase =>
            /\ Len(events') = Len(events) + 1
            /\ Len(logs') = Len(logs) + 1
            /\ LET e == events'[Len(events')]
               IN  /\ e.before = Before
                   /\ logs'[Len(logs')].status = e.status
                   /\ IF CycleOut(Before) THEN IsRestart(e)
                      ELSE IF DriveOrWindowOut(Before) THEN IsSleeper(e)
                      ELSE IF BreakOut(Before) THEN IsBreak(e)
                      ELSE IsFuel(e)
                   /\ miles_since_fuel' =
                         IF IsFuel(e) THEN 0 ELSE miles_since_fuel
            /\ remaining' = remaining
            /\ driven_on_leg' = driven_on_leg
            /\ pc' = "loop"]_vars

(* leg 2 was entered with the fuel interval used up and nothing else
   exhausted: its first iteration took the fuel stop *)
C11_Witness ==
    /\ Len(events) >= 2
    /\ IsFuel(events[Len(events)])
    /\ events[Len(events) - 1].stop_type = "pickup"
    /\ ~CycleOut(events[Len(events)].before)
    /\ miles_since_fuel = 0
    /\ remaining > Mile \div 2

(* a DRIVING event has just left the leg unfinished *)
LegUnfinishedAfterDrive == pc = "check" /\ remaining > Mile \div 2

(* C12: whenever a leg is still unfinished right after a DRIVING event, the
   check after the drive records exactly one rest/fuel event, never zero,
   before the loop iterates again: the fuel stop when the fuel is exhausted,
   else the restart when the cycle is, else the sleeper rest when the drive
   limit or duty window is, else the break; when fuel and another limit
   are exhausted together the fuel stop is recorded. *)
C12_NeedCheckPriority ==
    /\ [](LegUnfinishedAfterDrive =>
            /\ Len(events) > 0
            /\ events[Len(events)].status = "DRIVING"
            /\ (FuelOut(Before) \/ CycleOut(Before)
                \/ DriveOrWindowOut(Before) \/ BreakOut(Before)))
    /\ [][LegUnfinishedAfterDrive =>
            /\ Len(events') = Len(events) + 1
            /\ Len(logs') = Len(logs) + 1
            /\ LET e == events'[Len(events')]
               IN  /\ e.before = Before
                   /\ logs'[Len(logs')].status = e.status
                   /\ IF FuelOut(Before) THEN IsFuel(e)
                      ELSE IF CycleOut(Before) THEN IsRestart(e)
                      ELSE IF DriveOrWindowOut(Before) THEN IsSleeper(e)
                      ELSE IsBreak(e)
            /\ pc' = "loop"]_vars

(* the fuel and the 70-hour cycle ran out in the same DRIVING event: the
   check took the fuel stop *)
C12_Witness ==
    /\ Len(events) >= 2 /\ pc = "loop"
    /\ events[Len(events) - 1].status = "DRIVING"
    /\ IsFuel(events[Len(events)])
    /\ FuelOut(events[Len(events)].before)
    /\ CycleOut(events[Len(events)].before)

(* the last add_event call: the event and the trackers it found *)
LastEvent == events[Len(events)]

(* C13: add_event with duration d (clamped to >= 0) advances current_time
   by exactly d and never fails; a DRIVING event adds d to drive_clock,
   since_break_clock, cycle_used and window_clock; an ON_DUTY event adds d
   to cycle_used and window_clock and sets since_break_clock to 0 exactly
   when d >= 0.5. *)
C13_AddEventAdvances ==
    /\ (pc = "add" /\ Len(events) < MaxCalls) => ENABLED CallAddEvent
    /\ Len(events) > 0 =>
          LET e == LastEvent
              b == e.before
              d == e.duration
          IN  /\ d >= 0
              /\ current_time = b.current_time + d
              /\ Len(logs) = Len(events)
              /\ logs[Len(logs)].status = e.status
              /\ e.status = "DRIVING" =>
                    /\ drive_clock = b.drive_clock + d
                    /\ since_break_clock = b.since_break_clock + d
                    /\ cycle_used = b.cycle_used + d
                    /\ window_clock = b.window_clock + d
              /\ e.status = "ON_DUTY" =>
                    /\ cycle_used = b.cycle_used + d
                    /\ window_clock = b.window_clock + d
                    /\ since_break_clock =
                          IF 2 * d >= Hour THEN 0 ELSE b.since_break_clock

(* an ON_DUTY event of 0.25 h after a DRIVING event: the break clock keeps
   its value *)
C13_Witness ==
    /\ Len(events) = 2
    /\ events[1].status = "DRIVING" /\ events[1].duration > 0
    /\ events[2].status = "ON_DUTY" /\ 4 * events[2].duration = Hour
    /\ since_break_clock = events[1].duration
    /\ current_time = 6 * Hour + events[1].duration + events[2].duration

(* C14: an OFF_DUTY or SLEEPER event of duration d leaves cycle_used
   unchanged unless d >= 34 (then it is 0), leaves drive_clock unchanged
   unless d >= 10 (then drive_clock and window_clock are 0), adds d to
   window_clock when d < 10, and sets since_break_clock to 0 exactly when
   d >= 0.5; no add_event call changes miles_since_fuel, and an ON_DUTY
   event never changes drive_clock. *)
C14_RestEffects ==
    Len(events) > 0 =>
        LET e == LastEvent
            b == e.before
            d == e.duration
        IN  /\ miles_since_fuel = b.miles_since_fuel
            /\ e.status = "ON_DUTY" => drive_clock = b.drive_clock
            /\ e.status \in {"OFF_DUTY", "SLEEPER"} =>
                  /\ cycle_used = IF d >= 34 * Hour THEN 0 ELSE b.cycle_used
                  /\ drive_clock = IF d >= 10 * Hour THEN 0 ELSE b.drive_clock
                  /\ window_clock =
                        IF d >= 10 * Hour THEN 0 ELSE b.window_clock + d
                  /\ since_break_clock =
                        IF 2 * d >= Hour THEN 0 ELSE b.since_break_clock

(* a rest of just under 34 h after a DRIVING event: the drive clock and the
   duty window are reset, the cycle and the miles since fuel are kept *)
C14_Witness ==
    /\ Len(events) = 2
    /\ events[1].status = "DRIVING" /\ events[1].duration > 0
    /\ events[2].status = "OFF_DUTY"
    /\ events[2].duration = 34 * Hour - 1
    /\ drive_clock = 0 /\ window_clock = 0
    /\ cycle_used = cycle_used_input + events[1].duration
    /\ cycle_used > 62 * Hour
    /\ miles_since_fuel = 500 * Mile

(* hours elapsed from the trip start (6.0) to the final current_time *)
TotalElapsed == current_time - 6 * Hour

(* C15 as stated: summary.num_days = max(1, floor(total_elapsed / 24) + 1),
   total_elapsed being the hours from the trip start to the final
   current_time, the total_trip_time before rounding. *)
C15_Original ==
    Succeeded =>
        /\ result.summary.trip_duration = TotalElapsed
        /\ result.summary.num_days =
              IF (TotalElapsed \div (24 * Hour)) + 1 >= 1
              THEN (TotalElapsed \div (24 * Hour)) + 1 ELSE 1

(* C15 amended: summary.num_days = max(1, floor(current_time / 24) + 1),
   current_time being the final clock time in hours counted from midnight
   of the first day (the trip starts at 6.0), that is total_elapsed + 6:
   the number of calendar days the trip touches. *)
C15_NumDaysOfClockTime ==
    Succeeded =>
        /\ result.summary.trip_duration = TotalElapsed
        /\ result.summary.num_days >= 1
        /\ result.summary.num_days =
              ((TotalElapsed + 6 * Hour) \div (24 * Hour)) + 1
        /\ (result.summary.num_days - 1) * 24 * Hour <= current_time
        /\ current_time < result.summary.num_days * 24 * Hour

(* a trip that ends between midnight and 6:00: it touches one day more than
   its elapsed hours hold *)
C15_Witness ==
    /\ Succeeded
    /\ current_time % (24 * Hour) < 6 * Hour
    /\ result.summary.num_days = (TotalElapsed \div (24 * Hour)) + 2
    /\ result.summary.num_days >= 3

(* C16: at the instant every DRIVING event ends, drive_clock <= 11,
   window_clock <= 14, since_break_clock <= 8, cycle_used <= 70 and
   miles_since_fuel <= 1000; and drive_clock <= 11 and
   since_break_clock <= 8 hold in every reachable state. *)
C16_DrivingEndsWithinLimits ==
    /\ drive_clock <= 11 * Hour
    /\ since_break_clock <= 8 * Hour
    /\ (Len(events) > 0 /\ LastEvent.status = "DRIVING") =>
          /\ drive_clock = LastEvent.before.drive_clock + LastEvent.duration
          /\ window_clock <= 14 * Hour
          /\ cycle_used <= 70 * Hour
          /\ miles_since_fuel <= 1000 * Mile
    /\ \A i \in 1..(Len(events) - 1) :
          events[i].status = "DRIVING" =>
              /\ events[i + 1].before.drive_clock <= 11 * Hour
              /\ events[i + 1].before.window_clock <= 14 * Hour
              /\ events[i + 1].before.since_break_clock <= 8 * Hour
              /\ events[i + 1].before.cycle_used <= 70 * Hour
              /\ events[i + 1].before.miles_since_fuel <= 1000 * Mile

(* a DRIVING event has just ended with the 70-hour cycle and the fuel
   interval both used up to the limit, in a trip in which another one ended
   at the 11-hour and another at the 8-hour limit *)
C16_Witness ==
    /\ Len(events) > 0 /\ LastEvent.status = "DRIVING" /\ pc = "check"
    /\ cycle_used = 70 * Hour
    /\ miles_since_fuel = 1000 * Mile
    /\ \E i \in 1..(Len(events) - 1) :
          /\ events[i].status = "DRIVING"
          /\ events[i + 1].before.drive_clock = 11 * Hour
    /\ \E i \in 1..(Len(events) - 1) :
          /\ events[i].status = "DRIVING"
          /\ events[i + 1].before.since_break_clock = 8 * Hour

(* C17: no two adjacent log entries both have status DRIVING, at any
   moment of a trip and so in the log of every successful trip: between two
   DRIVING entries there is a rest/fuel event of the leg or the pickup. *)
C17_NoAdjacentDriving ==
    /\ \A i \in 1..(Len(logs) - 1) :
          logs[i].status = "DRIVING" =>
              logs[i + 1].status \in {"ON_DUTY", "OFF_DUTY", "SLEEPER"}
    /\ Succeeded =>
          \A i \in 1..(Len(result.logs) - 1) :
              ~(result.logs[i].status = "DRIVING"
                /\ result.logs[i + 1].status = "DRIVING")

(* a successful trip in which only the pickup separates the last DRIVING
   entry of leg 1 from the first of leg 2, and a rest two others *)
C17_Witness ==
    /\ Succeeded
    /\ \E k \in 2..(Len(logs) - 1) :
          /\ events[k].stop_type = "pickup"
          /\ logs[k - 1].status = "DRIVING"
          /\ logs[k + 1].status = "DRIVING"
    /\ \E k \in 2..(Len(logs) - 1) :
          /\ logs[k].status = "SLEEPER"
          /\ logs[k - 1].status = "DRIVING"
          /\ logs[k + 1].status = "DRIVING"

(* the rest/fuel events drive_leg recorded *)
RestEvents ==
    {i \in EventIdx :
        events[i].stop_type \in {"restart", "sleep", "break", "fuel"}}

(* C18: drive_leg records a rest or fuel event only when its own limit is
   exhausted at that instant: a 34 h restart only when
   70 - cycle_used <= 0.001, a 10 h sleeper only when
   11 - drive_clock <= 0.001 or 14 - window_clock <= 0.001, a 30-minute
   break only when 8 - since_break_clock <= 0.001, a fuel stop only when
   (1000 - miles_since_fuel) / 55 <= 0.001. *)
C18_RestOnlyWhenExhausted ==
    /\ \A i \in EventIdx :
          events[i].status \in {"OFF_DUTY", "SLEEPER"} => i \in RestEvents
    /\ \A i \in RestEvents :
          LET e == events[i]
          IN  /\ IsRestart(e) \/ IsSleeper(e) \/ IsBreak(e) \/ IsFuel(e)
              /\ IsRestart(e) => CycleOut(e.before)
              /\ IsSleeper(e) => DriveOrWindowOut(e.before)
              /\ IsBreak(e) => BreakOut(e.before)
              /\ IsFuel(e) => FuelOut(e.before)

(* a finished trip that took all four kinds of rest, each with its limit
   used up to the last thousandth of an hour *)
C18_Witness ==
    /\ Succeeded
    /\ \E i \in RestEvents : IsRestart(events[i])
    /\ \E i \in RestEvents : IsBreak(events[i])
    /\ \E i \in RestEvents : IsFuel(events[i])
    /\ \E i \in RestEvents :
          /\ IsSleeper(events[i])
          /\ events[i].before.drive_clock = 11 * Hour
          /\ events[i].before.window_clock < 14 * Hour

(* the stops that match log entry i: its start and its length *)
StopsOf(i) ==
    {j \in 1..Len(stops) :
        /\ stops[j].time = logs[i].start
        /\ stops[j].duration = logs[i].end - logs[i].start}

NonDriving == {i \in 1..Len(logs) : logs[i].status # "DRIVING"}

Markers == {j \in 1..Len(stops) : stops[j].type \in {"start", "end"}}

(* C19: in every successful trip each ON_DUTY, OFF_DUTY or SLEEPER log
   entry has exactly one stop whose time is the entry's start and whose
   duration is the entry's length, no DRIVING entry has a stop, the stops
   are these and the two markers, stop times are non-decreasing, and
   summary.num_stops = (number of non-DRIVING log entries) + 2. *)
C19_StopsMatchLog ==
    Succeeded =>
        /\ \A i \in NonDriving :
              /\ logs[i].status \in {"ON_DUTY", "OFF_DUTY", "SLEEPER"}
              /\ Cardinality(StopsOf(i)) = 1
              /\ StopsOf(i) \cap Markers = {}
        /\ \A i \in (1..Len(logs)) \ NonDriving :
              \A j \in 1..Len(stops) : stops[j].time # logs[i].start
        /\ \A j \in (1..Len(stops)) \ Markers :
              \E i \in NonDriving : j \in StopsOf(i)
        /\ Markers = {1, Len(stops)}
        /\ \A j \in Markers : stops[j].duration = 0
        /\ \A j \in 1..(Len(stops) - 1) : stops[j].time <= stops[j + 1].time
        /\ Len(stops) = Cardinality(NonDriving) + 2
        /\ result.summary.num_stops = Cardinality(NonDriving) + 2
        /\ result.stops = stops /\ result.logs = logs

(* a successful trip with rests of every kind, one of them begun at a time
   that is no whole thousandth of an hour *)
C19_Witness ==
    /\ Succeeded
    /\ Len(stops) >= 9
    /\ \E i \in RestEvents :
          events[i].before.current_time # logs[i].start
    /\ {"restart", "sleep", "break", "fuel"}
          \subseteq {stops[j].type : j \in 1..Len(stops)}

(* the three totals of the summary, before their rounding to one decimal *)
TotalsSum ==
    result.summary.total_drive + result.summary.total_rest
        + result.summary.total_on_duty

(* C20 as stated: before rounding, total_drive_time + total_rest_time +
   total_on_duty_time equals total_trip_time, the final current_time less
   6.0. *)
C20_Original ==
    Succeeded =>
        /\ result.summary.trip_duration = current_time - 6 * Hour
        /\ TotalsSum = result.summary.trip_duration

(* C20 amended: before their rounding to one decimal, the three totals sum
   to the end of the last log entry less 6.0, that is to
   round(final current_time, 3) - 6.0: every log entry is counted in
   exactly one of them, with its start and end as the log records them,
   rounded to 3 decimals.  total_trip_time is the unrounded
   current_time - 6.0; the two differ by at most 0.0005 h, and are equal
   when the final current_time is a whole number of thousandths. *)
C20_TotalsSumToLoggedTime ==
    Succeeded =>
        /\ result.summary.trip_duration = current_time - 6 * Hour
        /\ TotalsSum = logs[Len(logs)].end - 6 * Hour
        /\ 2000 * (TotalsSum - result.summary.trip_duration) <= Hour
        /\ 2000 * (result.summary.trip_duration - TotalsSum) <= Hour
        /\ (current_time * 1000) % Hour = 0 =>
              TotalsSum = result.summary.trip_duration
        /\ \A i \in 1..Len(logs) :
              logs[i].status \in {"DRIVING", "OFF_DUTY", "SLEEPER", "ON_DUTY"}

(* a trip with sleeper rests that ends at a time that is no whole
   thousandth of an hour: the totals fall short of or exceed the trip time *)
C20_Witness ==
    /\ Succeeded
    /\ TotalsSum # result.summary.trip_duration
    /\ result.summary.total_rest >= 20 * Hour
    /\ result.summary.total_drive > 11 * Hour

=============================================================================
